---- MODULE Spec2Model ----
(***************************************************************************)
(* A model of Builder (src/src/Builder.js): the query builder's two        *)
(* stores, its fluent mutators and readers, the serialization of the       *)
(* stores into a query string, and the four request operations with the    *)
(* status-code dispatch of their responses.                                *)
(*                                                                         *)
(* JavaScript values are tagged records: Num(n), Str(chars), Arr(elements) *)
(* and Obj(entries), entries in the object's enumeration order.  A string  *)
(* is a sequence of one-character strings, so that percent-encoding and    *)
(* the separators of the query string can be told apart.                   *)
(***************************************************************************)
EXTENDS Integers, Sequences, FiniteSets

VARIABLES
    _constraints,   \* Builder._constraints: Collection keyed by 'filter'
    appends,        \* Builder.appends: Collection keyed by 'name'
    requests,       \* the transport's requests in flight, by slot
    outcome         \* what the last call or response handler did

vars == <<_constraints, appends, requests, outcome>>

----------------------------------------------------------------------------
(* Bounds of the model *)

\* longest array, and most keys of an object, among the input values
MaxLen == 2
\* pages are kept within 1 - MaxPage .. MaxPage
MaxPage == 2
MinPage == 1 - MaxPage
\* most requests in flight at once
MaxInFlight == 2

----------------------------------------------------------------------------
(* JavaScript values *)

NULL == [t |-> "null"]
Num(n) == [t |-> "num", v |-> n]
Str(s) == [t |-> "str", v |-> s]
Arr(a) == [t |-> "arr", v |-> a]
Obj(e) == [t |-> "obj", v |-> e]

\* names used by the code and by the inputs
LIMIT == <<"l", "i", "m", "i", "t">>
PAGE == <<"p", "a", "g", "e">>
ORDER == <<"o", "r", "d", "e", "r">>
TAGS == <<"t", "a", "g", "s">>
STATUS == <<"s", "t", "a", "t", "u", "s">>
FNAME == <<"f", " ", "x">>

Digit(d) == <<"0", "1", "2", "3", "4", "5", "6", "7", "8", "9">>[d + 1]

RECURSIVE Digits(_)
Digits(n) == IF n < 10 THEN <<Digit(n)>> ELSE Digits(n \div 10) \o <<Digit(n % 10)>>

\* String(n) for an integer n
NumberToString(n) == IF n < 0 THEN <<"-">> \o Digits(-n) ELSE Digits(n)

OBJECT_OBJECT ==
    <<"[", "o", "b", "j", "e", "c", "t", " ", "O", "b", "j", "e", "c", "t", "]">>

\* String(value), the conversion encodeURIComponent applies to its argument:
\* an array joins its elements' strings with ",", an object is
\* "[object Object]"
RECURSIVE JsString(_)
RECURSIVE Join(_, _)
Join(a, i) ==
    IF i > Len(a) THEN <<>>
    ELSE (IF i > 1 THEN <<",">> ELSE <<>>)
         \o (IF a[i].t = "null" THEN <<>> ELSE JsString(a[i]))
         \o Join(a, i + 1)
JsString(x) ==
    CASE x.t = "num" -> NumberToString(x.v)
      [] x.t = "str" -> x.v
      [] x.t = "arr" -> Join(x.v, 1)
      [] x.t = "obj" -> OBJECT_OBJECT
      [] x.t = "null" -> <<"n", "u", "l", "l">>

\* the characters encodeURIComponent leaves as they are
Unreserved ==
    {"a", "b", "c", "d", "e", "f", "g", "h", "i", "j", "k", "l", "m",
     "n", "o", "p", "q", "r", "s", "t", "u", "v", "w", "x", "y", "z",
     "A", "B", "C", "D", "E", "F", "G", "H", "I", "J", "K", "L", "M",
     "N", "O", "P", "Q", "R", "S", "T", "U", "V", "W", "X", "Y", "Z",
     "0", "1", "2", "3", "4", "5", "6", "7", "8", "9",
     "-", "_", ".", "!", "~", "*", "'", "(", ")"}

\* the escape of a character outside Unreserved (the ASCII ones the model uses)
PercentCode(c) ==
    CASE c = " " -> <<"%", "2", "0">>
      [] c = "%" -> <<"%", "2", "5">>
      [] c = "&" -> <<"%", "2", "6">>
      [] c = "," -> <<"%", "2", "C">>
      [] c = "/" -> <<"%", "2", "F">>
      [] c = "=" -> <<"%", "3", "D">>
      [] c = "?" -> <<"%", "3", "F">>
      [] c = "[" -> <<"%", "5", "B">>
      [] c = "]" -> <<"%", "5", "D">>

RECURSIVE EncodeChars(_)
EncodeChars(s) ==
    IF s = <<>> THEN <<>>
    ELSE (IF Head(s) \in Unreserved THEN <<Head(s)>> ELSE PercentCode(Head(s)))
         \o EncodeChars(Tail(s))

\* encodeURIComponent of a name (a string)
encodeName(s) == EncodeChars(s)

\* encodeURIComponent(value)
encodeURIComponent(x) == EncodeChars(JsString(x))

----------------------------------------------------------------------------
(* Collection (js_collection): an ordered list of items with a key field *)

\* the position of the first item whose key field is key, 0 when none
RECURSIVE IndexFrom(_, _, _, _)
IndexFrom(items, field, key, i) ==
    IF i > Len(items) THEN 0
    ELSE IF items[i][field] = key THEN i
    ELSE IndexFrom(items, field, key, i + 1)

CollectionIndex(items, field, key) == IndexFrom(items, field, key, 1)

\* Collection.get(key): the item, or null
CollectionGet(items, field, key) ==
    IF CollectionIndex(items, field, key) = 0 THEN NULL
    ELSE items[CollectionIndex(items, field, key)]

\* Collection.push(item)
CollectionPush(items, item) == Append(items, item)

\* assigning item.value of the item Collection.get(key) returned
CollectionSetValue(items, field, key, value) ==
    [items EXCEPT ![CollectionIndex(items, field, key)].value = value]

----------------------------------------------------------------------------
(* Readers *)

hasVariableIn(apps, name) == CollectionGet(apps, "name", name) # NULL

hasVariable(name) == hasVariableIn(appends, name)

getVariable(name, default_result) ==
    IF hasVariable(name) THEN CollectionGet(appends, "name", name).value
    ELSE default_result

\* hasConstraint(filter) on the constraints cs
hasConstraintIn(cs, filter) == CollectionGet(cs, "filter", filter) # NULL

hasConstraint(filter) == hasConstraintIn(_constraints, filter)

\* getConstraintValue(filter) on the constraints cs; clone(value) builds an
\* equal value, and values carry no identity in the model
getConstraintValueIn(cs, filter) ==
    IF CollectionGet(cs, "filter", filter) # NULL
    THEN CollectionGet(cs, "filter", filter).value
    ELSE NULL

getConstraintValue(filter) == getConstraintValueIn(_constraints, filter)

orderingBy == IF hasVariable(ORDER) THEN getVariable(ORDER, NULL) ELSE NULL

\* getLimit() on the parameters apps
getLimitIn(apps) ==
    IF hasVariableIn(apps, LIMIT) THEN CollectionGet(apps, "name", LIMIT).value
    ELSE Num(-1)

getLimit == getLimitIn(appends)

currentPage == CollectionGet(appends, "name", PAGE).value

----------------------------------------------------------------------------
(* toQueryString *)

QMARK == <<"?">>
AMP == <<"&">>
FILTERS_OPEN == <<"f", "i", "l", "t", "e", "r", "s", "[">>

\* (first ? '?' : '&')
Separator(first) == IF first THEN QMARK ELSE AMP

\* the callback of this._constraints.each, on the accumulated
\* [query_string, first]
visitConstraint(acc, constraint) ==
    [query_string |->
        acc.query_string \o Separator(acc.first)
        \o FILTERS_OPEN \o encodeName(constraint.filter) \o <<"]", "[", "]", "=">>
        \o encodeURIComponent(constraint.value),
     first |-> FALSE]

\* the loop over an array ending one element early
RECURSIVE arrayPairs_stopsEarly(_, _, _, _)
arrayPairs_stopsEarly(name, elems, i, first) ==
    IF i >= Len(elems) THEN <<>>
    ELSE Separator(first) \o encodeName(name) \o <<"[", "]", "=">>
         \o encodeURIComponent(elems[i])
         \o arrayPairs_stopsEarly(name, elems, i + 1, first)

\* for(let i=0; i < item.value.length; ++i): first is not assigned in the loop
RECURSIVE arrayPairs(_, _, _, _)
arrayPairs(name, elems, i, first) ==
    IF i > Len(elems) THEN <<>>
    ELSE Separator(first) \o encodeName(name) \o <<"[", "]", "=">>
         \o encodeURIComponent(elems[i])
         \o arrayPairs(name, elems, i + 1, first)

\* for(key in item.value): first is not assigned in the loop
RECURSIVE objectPairs(_, _, _, _)
objectPairs(name, entries, i, first) ==
    IF i > Len(entries) THEN <<>>
    ELSE Separator(first) \o encodeName(name) \o <<"[">>
         \o encodeName(entries[i].k) \o <<"]", "=">>
         \o encodeURIComponent(entries[i].v)
         \o objectPairs(name, entries, i + 1, first)

\* the callback of this.appends.each
visitAppend(acc, item) ==
    [query_string |->
        acc.query_string \o
        (CASE item.value.t = "arr" -> arrayPairs(item.name, item.value.v, 1, acc.first)
           [] item.value.t = "obj" -> objectPairs(item.name, item.value.v, 1, acc.first)
           [] OTHER -> Separator(acc.first) \o encodeName(item.name) \o <<"=">>
                       \o encodeURIComponent(item.value)),
     first |-> FALSE]

\* Collection.each over the constraints, in store order
RECURSIVE eachConstraint(_, _, _)
eachConstraint(items, i, acc) ==
    IF i > Len(items) THEN acc
    ELSE eachConstraint(items, i + 1, visitConstraint(acc, items[i]))

\* Collection.each over the parameters, in store order
RECURSIVE eachAppend(_, _, _)
eachAppend(items, i, acc) ==
    IF i > Len(items) THEN acc
    ELSE eachAppend(items, i + 1, visitAppend(acc, items[i]))

\* a query string with the parameters before the constraints
QueryString_parametersFirst(cs, apps) ==
    eachConstraint(cs, 1,
        eachAppend(apps, 1, [query_string |-> <<>>, first |-> TRUE])).query_string

\* the query string of the stores cs (constraints) and apps (parameters)
QueryString(cs, apps) ==
    eachAppend(apps, 1,
        eachConstraint(cs, 1, [query_string |-> <<>>, first |-> TRUE])).query_string

toQueryString == QueryString(_constraints, appends)

----------------------------------------------------------------------------
(* What a call did: the value it returned or the exception it raised, and  *)
(* for a response handler the callbacks it invoked.                        *)

NOTHING == "nothing"
THIS == "this"
UNDEFINED == "undefined"
DuplicateVariableException == "DuplicateVariableException"
UnknownVariableException == "UnknownVariableException"
TypeError == "TypeError"

\* arg is the name or the filter the call was given, NONE when it takes none
NONE == <<>>

Returned(op, arg, value) ==
    [op |-> op, arg |-> arg, returns |-> value, raises |-> NOTHING, calls |-> <<>>]

Raised(op, arg, exception) ==
    [op |-> op, arg |-> arg, returns |-> NOTHING, raises |-> exception, calls |-> <<>>]

----------------------------------------------------------------------------
(* Constructor *)

constructorConstraints == <<>>

\* the constructor without the page default
constructorAppends_limitOnly == <<[name |-> LIMIT, value |-> Num(15)]>>

constructorAppends ==
    <<[name |-> LIMIT, value |-> Num(15)], [name |-> PAGE, value |-> Num(1)]>>

Init ==
    /\ _constraints = constructorConstraints
    /\ appends = constructorAppends
    /\ requests = [s \in 1..MaxInFlight |-> NULL]
    /\ outcome = Returned("constructor", NONE, THIS)

----------------------------------------------------------------------------
(* Mutators *)

\* append that pushes before it checks for the name
appendTo_pushesFirst(apps, name, value) ==
    [appends |-> CollectionPush(apps, [name |-> name, value |-> value]),
     raises |-> IF hasVariableIn(apps, name) THEN DuplicateVariableException
                ELSE NOTHING]

\* append(name, value) on the parameters apps: the parameters after the
\* call, and what it raised
appendTo(apps, name, value) ==
    IF hasVariableIn(apps, name)
    THEN [appends |-> apps, raises |-> DuplicateVariableException]
    ELSE [appends |-> CollectionPush(apps, [name |-> name, value |-> value]),
          raises |-> NOTHING]

\* updateVariable(name, value) on the parameters apps
updateIn(apps, name, value) ==
    IF hasVariableIn(apps, name)
    THEN [appends |-> CollectionSetValue(apps, "name", name, value),
          raises |-> NOTHING]
    ELSE [appends |-> apps, raises |-> UnknownVariableException]

append(name, value) ==
    /\ appends' = appendTo(appends, name, value).appends
    /\ outcome' = IF appendTo(appends, name, value).raises = NOTHING
                  THEN Returned("append", name, THIS)
                  ELSE Raised("append", name, appendTo(appends, name, value).raises)
    /\ UNCHANGED <<_constraints, requests>>

\* updateVariable has no return statement
updateVariable(name, value) ==
    /\ appends' = updateIn(appends, name, value).appends
    /\ outcome' = IF updateIn(appends, name, value).raises = NOTHING
                  THEN Returned("updateVariable", name, UNDEFINED)
                  ELSE Raised("updateVariable", name, updateIn(appends, name, value).raises)
    /\ UNCHANGED <<_constraints, requests>>

\* orderBy that pushes an order parameter at every call
orderBy_alwaysPushes(orderings) ==
    /\ appends' = CollectionPush(appends, [name |-> ORDER, value |-> Arr(orderings)])
    /\ outcome' = Returned("orderBy", NONE, THIS)
    /\ UNCHANGED <<_constraints, requests>>

\* orderBy that appends order whether or not it exists
orderBy_appendsOnly(orderings) ==
    /\ appends' = appendTo(appends, ORDER, Arr(orderings)).appends
    /\ outcome' = IF appendTo(appends, ORDER, Arr(orderings)).raises = NOTHING
                  THEN Returned("orderBy", NONE, THIS)
                  ELSE Raised("orderBy", NONE, DuplicateVariableException)
    /\ UNCHANGED <<_constraints, requests>>

\* orderBy(...orderings): orderings is the array of the arguments
orderBy(orderings) ==
    LET r == IF hasVariable(ORDER)
             THEN updateIn(appends, ORDER, Arr(orderings))
             ELSE appendTo(appends, ORDER, Arr(orderings))
    IN  /\ appends' = r.appends
        /\ outcome' = IF r.raises = NOTHING THEN Returned("orderBy", NONE, THIS)
                      ELSE Raised("orderBy", NONE, r.raises)
        /\ UNCHANGED <<_constraints, requests>>

\* setLimit that pushes a limit at every call
setLimit_alwaysPushes(value) ==
    /\ appends' = CollectionPush(appends, [name |-> LIMIT, value |-> value])
    /\ outcome' = Returned("setLimit", NONE, THIS)
    /\ UNCHANGED <<_constraints, requests>>

setLimit(value) ==
    LET r == IF hasVariable(LIMIT)
             THEN updateIn(appends, LIMIT, value)
             ELSE appendTo(appends, LIMIT, value)
    IN  /\ appends' = r.appends
        /\ outcome' = IF r.raises = NOTHING THEN Returned("setLimit", NONE, THIS)
                      ELSE Raised("setLimit", NONE, r.raises)
        /\ UNCHANGED <<_constraints, requests>>

\* this.appends.get('page').value = page: a TypeError were there no page
setPageIn(apps, page) ==
    IF hasVariableIn(apps, PAGE)
    THEN [appends |-> CollectionSetValue(apps, "name", PAGE, page),
          raises |-> NOTHING]
    ELSE [appends |-> apps, raises |-> TypeError]

setPage(page) ==
    /\ appends' = setPageIn(appends, page).appends
    /\ outcome' = IF setPageIn(appends, page).raises = NOTHING
                  THEN Returned("setPage", NONE, THIS)
                  ELSE Raised("setPage", NONE, TypeError)
    /\ UNCHANGED <<_constraints, requests>>

\* setPage(currentPage() + 1), while the page stays within the model's pages
incrementPage ==
    /\ hasVariable(PAGE)
    /\ currentPage.v + 1 <= MaxPage
    /\ appends' = setPageIn(appends, Num(currentPage.v + 1)).appends
    /\ outcome' = Returned("incrementPage", NONE, THIS)
    /\ UNCHANGED <<_constraints, requests>>

\* decrementPage that stops at page 1
decrementPage_clamped ==
    /\ hasVariable(PAGE)
    /\ currentPage.v - 1 >= MinPage
    /\ appends' = setPageIn(appends, Num(IF currentPage.v > 1 THEN currentPage.v - 1
                                         ELSE 1)).appends
    /\ outcome' = Returned("decrementPage", NONE, THIS)
    /\ UNCHANGED <<_constraints, requests>>

\* setPage(currentPage() - 1), while the page stays within the model's pages
decrementPage ==
    /\ hasVariable(PAGE)
    /\ currentPage.v - 1 >= MinPage
    /\ appends' = setPageIn(appends, Num(currentPage.v - 1)).appends
    /\ outcome' = Returned("decrementPage", NONE, THIS)
    /\ UNCHANGED <<_constraints, requests>>

\* where that pushes a constraint at every call
where_alwaysPushes(filter, value) ==
    /\ _constraints' = CollectionPush(_constraints, [filter |-> filter, value |-> value])
    /\ outcome' = Returned("where", filter, THIS)
    /\ UNCHANGED <<appends, requests>>

where(filter, value) ==
    /\ _constraints' =
        IF CollectionGet(_constraints, "filter", filter) = NULL
        THEN CollectionPush(_constraints, [filter |-> filter, value |-> value])
        ELSE CollectionSetValue(_constraints, "filter", filter, value)
    /\ outcome' = Returned("where", filter, THIS)
    /\ UNCHANGED <<appends, requests>>

----------------------------------------------------------------------------
(* Requests.  jQuery.ajax receives the settings, the url among them a     *)
(* string built when the operation is called; the transport holds them    *)
(* until it delivers the response to the statusCode handler of its        *)
(* status.  success and error say whether the caller supplied a function. *)
(* The field issued is not part of the settings: it records the stores at *)
(* the call, for the properties that compare the url with them.           *)

\* this.model.url
modelUrl == <<"/", "m">>

UPDATE_PATH == <<"/", "u", "p", "d", "a", "t", "e">>
STORE_PATH == <<"/", "s", "t", "o", "r", "e">>
DELETE_PATH == <<"/", "d", "e", "l", "e", "t", "e">>

\* the url of get without the query string
getUrl_noQueryString == modelUrl

getUrl == modelUrl \o toQueryString

updateUrl == modelUrl \o UPDATE_PATH \o toQueryString

insertUrl == modelUrl \o STORE_PATH

deleteResultsUrl == modelUrl \o DELETE_PATH \o toQueryString

Slots == 1..MaxInFlight

\* the transport takes the request in its first free slot
FreeSlot(slot) ==
    /\ requests[slot] = NULL
    /\ \A s \in Slots : s < slot => requests[s] # NULL

ajax(slot, op, method, url, success, error) ==
    /\ FreeSlot(slot)
    /\ requests' = [requests EXCEPT ![slot] =
            [op |-> op, method |-> method, url |-> url,
             success |-> success, error |-> error,
             issued |-> [constraints |-> _constraints, appends |-> appends]]]
    /\ outcome' = Returned(op, NONE, UNDEFINED)
    /\ UNCHANGED <<_constraints, appends>>

\* get that moves the builder to the next page as it issues the request
get_advancesPage(slot, success, error) ==
    /\ FreeSlot(slot)
    /\ requests' = [requests EXCEPT ![slot] =
            [op |-> "get", method |-> "GET", url |-> getUrl,
             success |-> success, error |-> error,
             issued |-> [constraints |-> _constraints, appends |-> appends]]]
    /\ outcome' = Returned("get", NONE, UNDEFINED)
    /\ appends' = setPageIn(appends, Num(currentPage.v + 1)).appends
    /\ UNCHANGED _constraints

get(slot, success, error) == ajax(slot, "get", "GET", getUrl, success, error)

update(slot, success, error) ==
    ajax(slot, "update", "POST", updateUrl, success, error)

insert(slot, success, error) ==
    ajax(slot, "insert", "POST", insertUrl, success, error)

deleteResults(slot, success, error) ==
    ajax(slot, "deleteResults", "POST", deleteResultsUrl, success, error)

\* the transport's response object
RESPONSE == "response"

\* newModel(items[i]) with exists = true, for every item
encapsulateData(items) ==
    [i \in 1..Len(items) |-> [data |-> items[i], exists |-> TRUE]]

\* _collectData without setQuery(this)
_collectData_unbound(models) == [models |-> models, query |-> "null"]

\* this.model.newCollection(models) with setQuery(this)
_collectData(models) == [models |-> models, query |-> THIS]

errorCall(response, code) ==
    [callback |-> "error", args |-> [response |-> response, code |-> code]]

Handled(calls) ==
    [op |-> "statusCode", arg |-> NONE, returns |-> UNDEFINED, raises |-> NOTHING,
     calls |-> calls]

\* the handler called a callback that is no function
HandlerRaised ==
    [op |-> "statusCode", arg |-> NONE, returns |-> NOTHING, raises |-> TypeError,
     calls |-> <<>>]

\* no handler for the status
Unhandled == Handled(<<>>)

\* the statusCode table of get, for a body {data: records}
getStatusCode(req, status, records) ==
    CASE status = 500 ->
            IF req.error THEN Handled(<<errorCall(RESPONSE, 500)>>) ELSE Handled(<<>>)
      [] status = 422 ->
            IF req.error THEN Handled(<<errorCall(RESPONSE, 500)>>) ELSE Handled(<<>>)
      [] status = 200 ->
            IF req.success
            THEN Handled(<<[callback |-> "success",
                            args |-> [collection |-> _collectData(encapsulateData(records)),
                                      payload |-> [data |-> encapsulateData(records)]]]>>)
            ELSE HandlerRaised
      [] OTHER -> Unhandled

\* the statusCode table of update, for a body {data: records}
updateStatusCode(req, status, records) ==
    CASE status = 500 ->
            IF req.error THEN Handled(<<errorCall(RESPONSE, 500)>>) ELSE Handled(<<>>)
      [] status = 422 ->
            IF req.error THEN Handled(<<errorCall(RESPONSE, 422)>>) ELSE Handled(<<>>)
      [] status = 200 ->
            IF req.success
            THEN Handled(<<[callback |-> "success",
                            args |-> [collection |-> _collectData(encapsulateData(records)),
                                      payload |-> [data |-> encapsulateData(records)]]]>>)
            ELSE Handled(<<>>)
      [] OTHER -> Unhandled

\* insert whose 422 handler calls success, and error too
insertStatusCode_successOn422(req, status, record) ==
    CASE status = 500 ->
            IF req.error THEN Handled(<<errorCall(RESPONSE, 500)>>) ELSE Handled(<<>>)
      [] status = 422 ->
            Handled((IF req.success
                     THEN <<[callback |-> "success",
                             args |-> [model |-> encapsulateData(<<record>>)[1]]]>>
                     ELSE <<>>)
                    \o (IF req.error THEN <<errorCall(RESPONSE, 422)>> ELSE <<>>))
      [] status = 200 ->
            IF req.success
            THEN Handled(<<[callback |-> "success",
                            args |-> [model |-> encapsulateData(<<record>>)[1]]]>>)
            ELSE Handled(<<>>)
      [] OTHER -> Unhandled

\* the statusCode table of insert, for a body that is one record
insertStatusCode(req, status, record) ==
    CASE status = 500 ->
            IF req.error THEN Handled(<<errorCall(RESPONSE, 500)>>) ELSE Handled(<<>>)
      [] status = 422 ->
            IF req.error THEN Handled(<<errorCall(RESPONSE, 422)>>) ELSE Handled(<<>>)
      [] status = 200 ->
            IF req.success
            THEN Handled(<<[callback |-> "success",
                            args |-> [model |-> encapsulateData(<<record>>)[1]]]>>)
            ELSE Handled(<<>>)
      [] OTHER -> Unhandled

\* deleteResults whose 403 handler passes the response on, like 422 and 500
deleteResultsStatusCode_403Response(req, status, records) ==
    CASE status \in {403, 422, 500} ->
            IF req.error THEN Handled(<<errorCall(RESPONSE, status)>>) ELSE Handled(<<>>)
      [] status = 200 ->
            IF req.success
            THEN Handled(<<[callback |-> "success",
                            args |-> [collection |-> _collectData(encapsulateData(records))]]>>)
            ELSE Handled(<<>>)
      [] OTHER -> Unhandled

\* the statusCode table of deleteResults, for a body that is the records
deleteResultsStatusCode(req, status, records) ==
    CASE status = 500 ->
            IF req.error THEN Handled(<<errorCall(RESPONSE, 500)>>) ELSE Handled(<<>>)
      [] status = 422 ->
            IF req.error THEN Handled(<<errorCall(RESPONSE, 422)>>) ELSE Handled(<<>>)
      [] status = 403 ->
            IF req.error THEN Handled(<<errorCall("null", 403)>>) ELSE Handled(<<>>)
      [] status = 200 ->
            IF req.success
            THEN Handled(<<[callback |-> "success",
                            args |-> [collection |-> _collectData(encapsulateData(records))]]>>)
            ELSE Handled(<<>>)
      [] OTHER -> Unhandled

\* the record an insert answers with
RECORD == "r0"

statusCode(req, status, records) ==
    CASE req.op = "get" -> getStatusCode(req, status, records)
      [] req.op = "update" -> updateStatusCode(req, status, records)
      [] req.op = "insert" -> insertStatusCode(req, status, RECORD)
      [] req.op = "deleteResults" -> deleteResultsStatusCode(req, status, records)

\* the transport delivers the response of the request in slot
deliver(slot, status, records) ==
    /\ requests[slot] # NULL
    /\ outcome' = statusCode(requests[slot], status, records)
    /\ requests' = [requests EXCEPT ![slot] = NULL]
    /\ UNCHANGED <<_constraints, appends>>

----------------------------------------------------------------------------
(* What a reader hands to its caller.  A composite value is a JavaScript   *)
(* object, held by reference: value is what the caller sees, and shares    *)
(* says which storage the returned object has in common with the stored    *)
(* one, ALL of it when the stored object itself is returned, NO_STORAGE    *)
(* when it is a structural copy.  The caller may then write to what it     *)
(* holds; a write reaches the store through the storage they share.        *)

NO_STORAGE == "nothing"
ELEMENTS == "elements"
ALL == "all"

\* value instanceof Object
instanceofObject(value) == value.t \in {"arr", "obj"}

\* clone(value) of the package clone: a deep copy
clone(value) == [value |-> value, shares |-> NO_STORAGE]

\* a value returned as it is stored
stored(value) ==
    [value |-> value, shares |-> IF instanceofObject(value) THEN ALL ELSE NO_STORAGE]

Read(op, arg, reference) ==
    [op |-> op, arg |-> arg, returns |-> "value", raises |-> NOTHING, calls |-> <<>>,
     value |-> reference.value, shares |-> reference.shares]

\* getConstraintValue(filter) returning the stored object itself
callGetConstraintValue_uncloned(filter) ==
    /\ outcome' = Read("getConstraintValue", filter,
                       stored(getConstraintValueIn(_constraints, filter)))
    /\ UNCHANGED <<_constraints, appends, requests>>

\* the call getConstraintValue(filter)
callGetConstraintValue(filter) ==
    LET constraint == CollectionGet(_constraints, "filter", filter)
    IN  /\ outcome' =
              Read("getConstraintValue", filter,
                   IF constraint # NULL
                   THEN (IF instanceofObject(constraint.value)
                         THEN clone(constraint.value)
                         ELSE stored(constraint.value))
                   ELSE stored(NULL))
        /\ UNCHANGED <<_constraints, appends, requests>>

\* the call orderingBy()
callOrderingBy ==
    /\ outcome' = Read("orderingBy", ORDER,
                       IF hasVariable(ORDER) THEN clone(getVariable(ORDER, NULL))
                       ELSE stored(NULL))
    /\ UNCHANGED <<_constraints, appends, requests>>

Bool(b) == [t |-> "bool", v |-> b]

\* the call toQueryString()
callToQueryString ==
    /\ outcome' = Read("toQueryString", NONE, stored(Str(toQueryString)))
    /\ UNCHANGED <<_constraints, appends, requests>>

\* the call hasConstraint(filter)
callHasConstraint(filter) ==
    /\ outcome' = Read("hasConstraint", filter, stored(Bool(hasConstraint(filter))))
    /\ UNCHANGED <<_constraints, appends, requests>>

\* the call getLimit()
callGetLimit ==
    /\ outcome' = Read("getLimit", NONE, stored(getLimit))
    /\ UNCHANGED <<_constraints, appends, requests>>

\* the call currentPage()
callCurrentPage ==
    /\ hasVariable(PAGE)
    /\ outcome' = Read("currentPage", NONE, stored(currentPage))
    /\ UNCHANGED <<_constraints, appends, requests>>

\* the call hasVariable(name)
callHasVariable(name) ==
    /\ outcome' = Read("hasVariable", name, stored(Bool(hasVariable(name))))
    /\ UNCHANGED <<_constraints, appends, requests>>

\* the call getVariable(name), default_result = null
callGetVariable(name) ==
    /\ outcome' = Read("getVariable", name, stored(getVariable(name, NULL)))
    /\ UNCHANGED <<_constraints, appends, requests>>

\* the writes of a caller to a composite it holds
Z == Str(<<"z">>)
PUSH == "push"
NESTED == "nested"

\* push Z on an array, set the key z of an object
pushed(value) ==
    IF value.t = "arr" THEN Arr(Append(value.v, Z))
    ELSE Obj(Append(value.v, [k |-> <<"z">>, v |-> Z]))

\* the value of an array's first element or of an object's first key is itself
\* a non-empty object
hasNested(value) ==
    /\ instanceofObject(value)
    /\ value.v # <<>>
    /\ IF value.t = "arr"
       THEN value.v[1].t = "obj" /\ value.v[1].v # <<>>
       ELSE value.v[1].v.t = "obj" /\ value.v[1].v.v # <<>>

setFirstKey(object) == Obj([object.v EXCEPT ![1].v = Z])

\* set the first key of that nested object to Z
nestedSet(value) ==
    IF value.t = "arr" THEN Arr([value.v EXCEPT ![1] = setFirstKey(@)])
    ELSE Obj([value.v EXCEPT ![1].v = setFirstKey(@)])

written(write, value) == IF write = PUSH THEN pushed(value) ELSE nestedSet(value)

\* the caller writes to the composite the last reader returned
mutateReturned(write) ==
    LET reaches == \/ outcome.shares = ALL
                   \/ outcome.shares = ELEMENTS /\ write = NESTED
    IN  /\ outcome.op \in {"getConstraintValue", "orderingBy"}
        /\ instanceofObject(outcome.value)
        /\ write = NESTED => hasNested(outcome.value)
        /\ outcome' = [op |-> "mutateReturned", arg |-> outcome.arg,
                       returns |-> UNDEFINED, raises |-> NOTHING, calls |-> <<>>,
                       value |-> written(write, outcome.value),
                       shares |-> outcome.shares, reader |-> outcome.op]
        /\ IF reaches /\ outcome.op = "getConstraintValue"
           THEN /\ _constraints' =
                     CollectionSetValue(_constraints, "filter", outcome.arg,
                         written(write, getConstraintValueIn(_constraints, outcome.arg)))
                /\ UNCHANGED appends
           ELSE IF reaches
           THEN /\ appends' = CollectionSetValue(appends, "name", ORDER,
                                  written(write, getVariable(ORDER, NULL)))
                /\ UNCHANGED _constraints
           ELSE UNCHANGED <<_constraints, appends>>
        /\ UNCHANGED requests

----------------------------------------------------------------------------
(* Inputs *)

Prefix(list, n) == SubSeq(list, 1, n)

ELEMS == <<Str(<<"a">>), Str(<<"b">>), Str(<<"c">>), Str(<<"d">>)>>

ENTRIES ==
    <<[k |-> <<"k">>, v |-> Str(<<"a">>)], [k |-> <<"j">>, v |-> Str(<<"b">>)],
      [k |-> <<"h">>, v |-> Str(<<"c">>)], [k |-> <<"g">>, v |-> Str(<<"d">>)]>>

\* ordering descriptors, opaque to the builder
DESCS ==
    <<Obj(<<[k |-> <<"a", "t", "t", "r", "i", "b", "u", "t", "e">>,
             v |-> Str(<<"n", "a", "m", "e">>)],
            [k |-> <<"d", "i", "r", "e", "c", "t", "i", "o", "n">>,
             v |-> Str(<<"a", "s", "c">>)]>>),
      Str(<<"i", "d">>), Str(<<"d", "e", "s", "c">>), Str(<<"x">>)>>

Scalars == {Num(50), Str(<<"a", "&", "?">>)}

\* the lengths of the lists and keyed values: none, one, and the longest
Sizes == {0, 1, MaxLen}

Arrays == {Arr(Prefix(ELEMS, n)) : n \in Sizes}

Objects == {Obj(Prefix(ENTRIES, n)) : n \in Sizes}

Vals == Scalars \cup Arrays \cup Objects

OrderLists == {Prefix(DESCS, n) : n \in Sizes}

\* page is a number (@param {int} page): incrementPage and decrementPage
\* do arithmetic on it
PageVals == {Num(p) : p \in MinPage..MaxPage}

Names == {LIMIT, PAGE, ORDER, TAGS}

\* the values tried for each parameter name
ValsFor(name) ==
    CASE name = PAGE -> PageVals
      [] name = ORDER -> {Arr(o) : o \in OrderLists}
      [] name = TAGS -> {Arr(Prefix(ELEMS, MaxLen))}
      [] OTHER -> Vals

Filters == {STATUS, FNAME}

\* the values tried for each filter
WhereValsFor(filter) ==
    IF filter = STATUS
    THEN {Str(<<"a", "c", "t", "i", "v", "e">>), Arr(Prefix(ELEMS, MaxLen))}
    ELSE {Str(<<"a", "&", "?">>)}

----------------------------------------------------------------------------
(* The builder alone: every mutator, on the inputs above *)

Next ==
    \/ \E f \in Filters : \E v \in WhereValsFor(f) : where(f, v)
    \/ \E o \in OrderLists : orderBy(o)
    \/ \E v \in Vals : setLimit(v)
    \/ \E p \in PageVals : setPage(p)
    \/ incrementPage
    \/ decrementPage
    \/ \E n \in Names : \E v \in ValsFor(n) : append(n, v)
    \/ \E n \in Names : \E v \in ValsFor(n) : updateVariable(n, v)

Spec == Init /\ [][Next]_vars

----------------------------------------------------------------------------
(* The builder with its requests, one in flight at a time: every mutator  *)
(* on a few inputs, the four request operations with and without          *)
(* callbacks, and every status of the dispatch tables and one outside.    *)

Statuses == {200, 403, 404, 422, 500}

RecordLists == {<<>>, <<"r1", "r2">>}

ReqMutate ==
    \/ where(STATUS, Str(<<"a", "c", "t", "i", "v", "e">>))
    \/ orderBy(Prefix(DESCS, 1))
    \/ setLimit(Num(50))
    \/ setPage(Num(MaxPage))
    \/ incrementPage
    \/ decrementPage
    \/ \E n \in {LIMIT, ORDER} : append(n, Arr(Prefix(DESCS, 1)))
    \/ \E n \in {LIMIT, TAGS} : updateVariable(n, Num(50))

ReqIssue(slots) ==
    \E s \in slots : \E success \in BOOLEAN, error \in BOOLEAN :
        \/ get(s, success, error)
        \/ update(s, success, error)
        \/ insert(s, success, error)
        \/ deleteResults(s, success, error)

ReqDeliver == \E s \in Slots, st \in Statuses, r \in RecordLists : deliver(s, st, r)

ReqRead ==
    \/ callToQueryString
    \/ callGetConstraintValue(STATUS)
    \/ callHasConstraint(STATUS)
    \/ callOrderingBy
    \/ callGetLimit
    \/ callCurrentPage
    \/ callHasVariable(TAGS)
    \/ callGetVariable(ORDER)

ReqNext == ReqMutate \/ ReqIssue({1}) \/ ReqDeliver \/ ReqRead

ReqSpec == Init /\ [][ReqNext]_vars

----------------------------------------------------------------------------
(* Overlapping requests: up to MaxInFlight in flight while the builder is *)
(* mutated, their responses delivered in any order.                       *)

ConcMutate ==
    \/ where(STATUS, Str(<<"a", "c", "t", "i", "v", "e">>))
    \/ incrementPage

ConcIssue ==
    \E s \in Slots :
        \/ get(s, TRUE, TRUE)
        \/ update(s, TRUE, TRUE)
        \/ insert(s, TRUE, TRUE)
        \/ deleteResults(s, TRUE, TRUE)

ConcDeliver == \E s \in Slots, st \in {200, 500} : deliver(s, st, <<"r1", "r2">>)

ConcNext == ConcMutate \/ ConcIssue \/ ConcDeliver

ConcSpec == Init /\ [][ConcNext]_vars

----------------------------------------------------------------------------
(* Readers that return composites, and callers that write to what they     *)
(* were returned.                                                          *)

CopyVals ==
    {Str(<<"a", "c", "t", "i", "v", "e">>), Arr(Prefix(ELEMS, MaxLen)),
     Arr(Prefix(DESCS, MaxLen)), Obj(Prefix(ENTRIES, MaxLen)),
     Obj(<<[k |-> <<"k">>, v |-> DESCS[1]]>>)}

CopyNext ==
    \/ \E v \in CopyVals : where(STATUS, v)
    \/ \E o \in OrderLists : orderBy(o)
    \/ \E f \in Filters : callGetConstraintValue(f)
    \/ callOrderingBy
    \/ \E write \in {PUSH, NESTED} : mutateReturned(write)

CopySpec == Init /\ [][CopyNext]_vars

----------------------------------------------------------------------------
(* Properties *)

RECURSIVE CountChar(_, _)
CountChar(s, c) ==
    IF s = <<>> THEN 0
    ELSE (IF Head(s) = c THEN 1 ELSE 0) + CountChar(Tail(s), c)

MutatorOps ==
    {"where", "orderBy", "setLimit", "setPage", "incrementPage", "decrementPage",
     "append", "updateVariable"}

\* the number of items of a store whose key field is key
CountKey(items, field, key) ==
    Cardinality({i \in DOMAIN items : items[i][field] = key})

\* C1: a non-empty query string starts with '?', holds no other '?', and
\* every pair after the first is preceded by '&' (one separator per pair,
\* a pair being what holds an unescaped '=').
C1_OneQuestionMarkFirst ==
    toQueryString # <<>> =>
        /\ Head(toQueryString) = "?"
        /\ CountChar(toQueryString, "?") = 1
        /\ CountChar(toQueryString, "&") = CountChar(toQueryString, "=") - 1

\* C2: a mutator that completes without raising returns the builder.
C2_MutatorsReturnBuilder ==
    (outcome.op \in MutatorOps /\ outcome.raises = NOTHING) => outcome.returns = THIS

\* C3: a 422 or 500 response of any of the four operations, with an error
\* callback supplied, calls error(response, code) with the status received
\* as the code.
C3_ErrorCodeIsStatus ==
    [][\A s \in Slots, st \in {422, 500}, r \in RecordLists :
        (deliver(s, st, r) /\ requests[s].error)
            => outcome'.calls = <<errorCall(RESPONSE, st)>>]_vars

\* C4: a response whose matching callback was omitted (success for 200;
\* error for 422, 500 and 403) calls nothing and raises nothing.
C4_OmittedCallbackIsSilent ==
    [][\A s \in Slots, st \in Statuses, r \in RecordLists :
        (/\ deliver(s, st, r)
         /\ \/ st = 200 /\ ~requests[s].success
            \/ st \in {403, 422, 500} /\ ~requests[s].error)
            => (outcome'.calls = <<>> /\ outcome'.raises = NOTHING)]_vars

\* C5: append of a name that exists raises DuplicateVariableException,
\* updateVariable of a name that does not exist raises
\* UnknownVariableException, and a call that raised left both stores as
\* they were.
C5_RaisesAndLeavesStores ==
    [][/\ (outcome'.op = "append" /\ hasVariable(outcome'.arg))
            => /\ outcome'.raises = DuplicateVariableException
               /\ UNCHANGED <<_constraints, appends>>
       /\ (outcome'.op = "updateVariable" /\ ~hasVariable(outcome'.arg))
            => /\ outcome'.raises = UnknownVariableException
               /\ UNCHANGED <<_constraints, appends>>]_vars

\* a name that was appended, not seeded, is refused a second append
C5_Witness ==
    /\ outcome.op = "append"
    /\ outcome.arg = TAGS
    /\ outcome.raises = DuplicateVariableException
    /\ hasConstraint(STATUS)

\* C6: after where(f, v) there is exactly one constraint for f, its value is
\* v and hasConstraint(f) holds; no filter has two constraints.
C6_OneConstraintPerFilter ==
    [][outcome'.op = "where" =>
        /\ \E v \in WhereValsFor(outcome'.arg) :
            /\ where(outcome'.arg, v)
            /\ getConstraintValueIn(_constraints', outcome'.arg) = v
        /\ CountKey(_constraints', "filter", outcome'.arg) = 1
        /\ hasConstraintIn(_constraints', outcome'.arg)
        /\ \A g \in Filters : CountKey(_constraints', "filter", g) <= 1]_vars

\* the filter first given the other value now holds the array, beside a
\* second filter
C6_Witness ==
    /\ outcome.op = "where"
    /\ Len(_constraints) = 2
    /\ _constraints[2].filter = STATUS
    /\ getConstraintValue(STATUS) = Arr(Prefix(ELEMS, MaxLen))

\* C7: limit and page are parameters of the builder in every state.
C7_LimitAndPagePresent == hasVariable(LIMIT) /\ hasVariable(PAGE)

\* a response was handled after mutators changed every seeded parameter
C7_Witness ==
    /\ outcome.op = "statusCode"
    /\ hasVariable(ORDER)
    /\ getLimit = Num(50)
    /\ currentPage = Num(MinPage)

\* C8: no two parameters share a name.
C8_ParameterNamesUnique ==
    \A i \in DOMAIN appends : \A j \in DOMAIN appends :
        appends[i].name = appends[j].name => i = j

\* order was appended after tags and then replaced by orderBy
C8_Witness ==
    /\ Len(appends) = 4
    /\ appends[3].name = TAGS
    /\ appends[4].name = ORDER
    /\ appends[4].value = Arr(Prefix(DESCS, MaxLen))
    /\ outcome.op = "orderBy"

\* the url the operation op builds from the stores cs and apps
UrlAt(op, cs, apps) ==
    CASE op = "get" -> modelUrl \o QueryString(cs, apps)
      [] op = "update" -> modelUrl \o UPDATE_PATH \o QueryString(cs, apps)
      [] op = "insert" -> modelUrl \o STORE_PATH
      [] op = "deleteResults" -> modelUrl \o DELETE_PATH \o QueryString(cs, apps)

\* C9: the url of a request in flight is the serialization of the stores
\* as they were when it was issued, and no step changes a request in
\* flight: it stays as issued until its own response is delivered.
C9_UrlIsSnapshotAtIssue ==
    [][\A s \in Slots :
        /\ requests'[s] # NULL =>
            requests'[s].url = UrlAt(requests'[s].op,
                                     requests'[s].issued.constraints,
                                     requests'[s].issued.appends)
        /\ (requests[s] # NULL /\ requests'[s] # NULL) => requests'[s] = requests[s]]_vars

\* two requests in flight, issued from different stores, and the builder
\* mutated since the later one
C9_Witness ==
    /\ \A s \in Slots : requests[s] # NULL /\ requests[s].op = "get"
    /\ requests[1].url # requests[MaxInFlight].url
    /\ getUrl # requests[1].url
    /\ getUrl # requests[MaxInFlight].url

\* C10 as claimed: the collection given to success is bound to the builder,
\* and the builder's query string at the response is that of the request.
C10_ReissueSendsRequestUrl ==
    [][\A s \in Slots :
        (/\ deliver(s, 200, <<"r1", "r2">>)
         /\ requests[s].op \in {"get", "update", "deleteResults"}
         /\ requests[s].success)
            => /\ outcome'.calls[1].args.collection.query = THIS
               /\ UrlAt(requests[s].op, _constraints', appends') = requests[s].url]_vars

\* C10 amended: the collection given to success is bound to the builder,
\* and the builder's query string at the response is that of the request
\* when the stores are as they were at issue.
C10_ReissueSendsCurrentUrl ==
    [][\A s \in Slots :
        (/\ deliver(s, 200, <<"r1", "r2">>)
         /\ requests[s].op \in {"get", "update", "deleteResults"}
         /\ requests[s].success)
            => /\ outcome'.calls[1].args.collection.query = THIS
               /\ (/\ _constraints' = requests[s].issued.constraints
                   /\ appends' = requests[s].issued.appends)
                    => UrlAt(requests[s].op, _constraints', appends') = requests[s].url]_vars

\* success received a collection bound to the builder
C10_Witness ==
    /\ outcome.op = "statusCode"
    /\ outcome.calls # <<>>
    /\ outcome.calls[1].callback = "success"
    /\ "collection" \in DOMAIN outcome.calls[1].args
    /\ outcome.calls[1].args.collection.query = THIS
    /\ hasConstraint(STATUS)

\* C11: a 403 response calls error(null, 403) when the request is a
\* deleteResults with an error callback, and calls nothing for any other
\* request.
C11_Only403OfDelete ==
    [][outcome'.op = "statusCode" =>
        \A s \in Slots, r \in RecordLists :
            deliver(s, 403, r) =>
                /\ outcome'.raises = NOTHING
                /\ outcome'.calls =
                    IF requests[s].op = "deleteResults" /\ requests[s].error
                    THEN <<errorCall("null", 403)>>
                    ELSE <<>>]_vars

\* a deleteResults was answered 403 and its error callback called
C11_Witness ==
    /\ outcome.op = "statusCode"
    /\ outcome.calls = <<errorCall("null", 403)>>

\* C12: getConstraintValue(filter) and orderingBy() return null when unset,
\* and otherwise a value equal to the stored one that shares no storage
\* with it when composite: a write of the caller to what it was returned,
\* at the top or in a nested element, leaves the stores as they were, so
\* getConstraintValue, orderingBy and toQueryString return what they did.
C12_ReturnedCompositesAreCopies ==
    [][/\ outcome'.op = "getConstraintValue" =>
            /\ outcome'.value = getConstraintValueIn(_constraints, outcome'.arg)
            /\ ~hasConstraint(outcome'.arg) => outcome'.value = NULL
            /\ outcome'.shares = NO_STORAGE
       /\ outcome'.op = "orderingBy" =>
            /\ outcome'.value = getVariable(ORDER, NULL)
            /\ outcome'.shares = NO_STORAGE
       /\ outcome'.op = "mutateReturned" =>
            /\ UNCHANGED <<_constraints, appends>>
            /\ QueryString(_constraints', appends') = toQueryString
            /\ outcome'.value # outcome.value]_vars

\* a caller wrote into a nested element of the list orderingBy() returned,
\* and the builder still holds the list orderBy was given
C12_Witness ==
    /\ outcome.op = "mutateReturned"
    /\ outcome.reader = "orderingBy"
    /\ outcome.value = nestedSet(Arr(Prefix(DESCS, MaxLen)))
    /\ orderingBy = Arr(Prefix(DESCS, MaxLen))
    /\ hasNested(getConstraintValue(STATUS))

\* the least element of a non-empty set of integers
Least(S) == CHOOSE i \in S : \A j \in S : i <= j

\* the pairs of a query string: what stands between its separators
Pairs(s) ==
    LET seps == {i \in 1..Len(s) : s[i] \in {QMARK, AMP}} \cup {0, Len(s) + 1}
        starts == {i \in seps : i <= Len(s) /\ (i + 1) \notin seps}
        nth(k) == CHOOSE i \in starts : Cardinality({j \in starts : j < i}) = k - 1
    IN  [k \in 1..Cardinality(starts) |->
            SubSeq(s, nth(k) + 1, Least({j \in seps : j > nth(k)}) - 1)]

\* the name a pair starts with: what stands before its first [ or =
PairName(pair) ==
    LET stops == {i \in 1..Len(pair) : pair[i] \in {"[", "="}}
    IN  IF stops = {} THEN pair ELSE SubSeq(pair, 1, Least(stops) - 1)

\* the number of pairs section 4.4 gives a parameter value
PairCount(value) == IF value.t \in {"arr", "obj"} THEN Len(value.v) ELSE 1

\* the names of the pairs of the parameters apps[i..], one per pair
RECURSIVE ParameterPairNames(_, _)
ParameterPairNames(apps, i) ==
    IF i > Len(apps) THEN <<>>
    ELSE [j \in 1..PairCount(apps[i].value) |-> encodeName(apps[i].name)]
         \o ParameterPairNames(apps, i + 1)

\* the pair section 4.4 gives a constraint
ConstraintPair(constraint) ==
    <<"f", "i", "l", "t", "e", "r", "s", "[">> \o encodeName(constraint.filter)
    \o <<"]", "[", "]", "=">> \o encodeURIComponent(constraint.value)

FilterSeq(cs) == [i \in 1..Len(cs) |-> cs[i].filter]
NameSeq(apps) == [i \in 1..Len(apps) |-> apps[i].name]

\* new is old, or old with one key it did not hold added at its end
KeptOrAddedLast(old, new) ==
    \/ new = old
    \/ /\ Len(new) = Len(old) + 1
       /\ SubSeq(new, 1, Len(old)) = old
       /\ \A i \in 1..Len(old) : old[i] # new[Len(new)]

ACTIVE == Str(<<"a", "c", "t", "i", "v", "e">>)
FRESH_QUERY == <<"?">> \o LIMIT \o <<"=", "1", "5", "&">> \o PAGE \o <<"=", "1">>
ACTIVE_QUERY ==
    <<"?", "f", "i", "l", "t", "e", "r", "s", "[">> \o STATUS
    \o <<"]", "[", "]", "=">> \o ACTIVE.v \o <<"&">> \o Tail(FRESH_QUERY)

\* the pairs of toQueryString() are one per constraint in the order of the
\* constraint store, then those of each parameter in the order of the
\* parameter store
PairsInStoreOrder ==
    LET pairs == Pairs(toQueryString)
        n == Len(_constraints)
    IN  /\ Len(pairs) >= n
        /\ \A i \in 1..n : pairs[i] = ConstraintPair(_constraints[i])
        /\ [i \in 1..(Len(pairs) - n) |-> PairName(pairs[i + n])]
               = ParameterPairNames(appends, 1)

\* C13: toQueryString() emits one pair per constraint in constraint insertion
\* order, then the pairs of every parameter in parameter insertion order; a
\* call never moves a filter or a parameter that exists, it changes its value
\* in place or adds a new one at the end.  A fresh builder gives
\* ?limit=15&page=1 and where('status', 'active') on it
\* ?filters[status][]=active&limit=15&page=1.
C13_PairsInInsertionOrder ==
    /\ [](/\ PairsInStoreOrder
          /\ (_constraints = <<>> /\ appends = constructorAppends)
               => toQueryString = FRESH_QUERY
          /\ (_constraints = <<[filter |-> STATUS, value |-> ACTIVE]>>
                /\ appends = constructorAppends)
               => toQueryString = ACTIVE_QUERY)
    /\ [][/\ KeptOrAddedLast(FilterSeq(_constraints), FilterSeq(_constraints'))
          /\ KeptOrAddedLast(NameSeq(appends), NameSeq(appends'))]_vars

\* two filters and four parameters are held, limit replaced by setLimit after
\* tags and order were added: limit is still the first parameter
C13_Witness ==
    /\ FilterSeq(_constraints) = <<FNAME, STATUS>>
    /\ getConstraintValue(STATUS) = Arr(Prefix(ELEMS, MaxLen))
    /\ NameSeq(appends) = <<LIMIT, PAGE, TAGS, ORDER>>
    /\ getLimit = Arr(Prefix(ELEMS, MaxLen))
    /\ outcome.op = "setLimit"

\* decodeURIComponent: the inverse of PercentCode on the characters it encodes
Reserved == {" ", "%", "&", ",", "/", "=", "?", "[", "]"}
Unescape(code) == CHOOSE c \in Reserved : PercentCode(c) = code

RECURSIVE DecodeFrom(_, _)
DecodeFrom(s, i) ==
    IF i > Len(s) THEN <<>>
    ELSE IF s[i] = "%" THEN <<Unescape(SubSeq(s, i, i + 2))>> \o DecodeFrom(s, i + 3)
    ELSE <<s[i]>> \o DecodeFrom(s, i + 1)

Decode(s) == DecodeFrom(s, 1)

\* the inverse of the section 4.4 rules on one pair: filters[f][]=v is a
\* constraint, name[]=element an element, name[key]=value a key, name=value a
\* scalar
ParsePair(pair) ==
    LET eqs == {i \in 1..Len(pair) : pair[i] = "="}
        eq == IF eqs = {} THEN Len(pair) + 1 ELSE Least(eqs)
        key == SubSeq(pair, 1, eq - 1)
        value == Str(Decode(SubSeq(pair, eq + 1, Len(pair))))
        opens == {i \in 1..Len(key) : key[i] = "["}
        open == IF opens = {} THEN Len(key) + 1 ELSE Least(opens)
        head == SubSeq(key, 1, open - 1)
        rest == SubSeq(key, open + 1, Len(key))
    IN  IF opens = {}
        THEN [kind |-> "scalar", name |-> Decode(key), key |-> <<>>, value |-> value]
        ELSE IF /\ head = <<"f", "i", "l", "t", "e", "r", "s">>
                /\ Len(rest) >= 3
                /\ SubSeq(rest, Len(rest) - 2, Len(rest)) = <<"]", "[", "]">>
        THEN [kind |-> "filter", name |-> Decode(SubSeq(rest, 1, Len(rest) - 3)),
              key |-> <<>>, value |-> value]
        ELSE IF rest = <<"]">>
        THEN [kind |-> "element", name |-> Decode(head), key |-> <<>>, value |-> value]
        ELSE [kind |-> "key", name |-> Decode(head),
              key |-> Decode(SubSeq(rest, 1, Len(rest) - 1)), value |-> value]

Parsed(s) == [i \in 1..Len(Pairs(s)) |-> ParsePair(Pairs(s)[i])]

ParsedConstraints(s) ==
    {[filter |-> Parsed(s)[i].name, value |-> Parsed(s)[i].value] :
        i \in {j \in 1..Len(Parsed(s)) : Parsed(s)[j].kind = "filter"}}

\* the value of the parameter name: its scalar, its elements in order, or its
\* keys in order
ParsedValue(parsed, name) ==
    LET of == SelectSeq(parsed, LAMBDA p : p.kind # "filter" /\ p.name = name)
    IN  IF of[1].kind = "scalar" THEN of[1].value
        ELSE IF of[1].kind = "element" THEN Arr([i \in 1..Len(of) |-> of[i].value])
        ELSE Obj([i \in 1..Len(of) |-> [k |-> of[i].key, v |-> of[i].value]])

ParsedParameters(s) ==
    LET parsed == Parsed(s)
        names == {parsed[i].name : i \in {j \in 1..Len(parsed) : parsed[j].kind # "filter"}}
    IN  {[name |-> n, value |-> ParsedValue(parsed, n)] : n \in names}

\* a value as a query string can carry it: a number is its decimal string
RECURSIVE Carried(_)
Carried(value) ==
    CASE value.t = "num" -> Str(NumberToString(value.v))
      [] value.t = "arr" -> Arr([i \in 1..Len(value.v) |-> Carried(value.v[i])])
      [] value.t = "obj" ->
            Obj([i \in 1..Len(value.v) |-> [k |-> value.v[i].k, v |-> Carried(value.v[i].v)]])
      [] OTHER -> value

\* C14: parsing toQueryString() by the inverse of the section 4.4 rules gives
\* the constraints and the parameters the builder holds, names and values.
C14_RoundTrip ==
    /\ ParsedConstraints(toQueryString)
         = {[filter |-> _constraints[i].filter, value |-> Carried(_constraints[i].value)] :
                i \in 1..Len(_constraints)}
    /\ ParsedParameters(toQueryString)
         = {[name |-> appends[i].name, value |-> Carried(appends[i].value)] :
                i \in 1..Len(appends)}

\* the parameters apps without the one called name
Without(apps, name) == SelectSeq(apps, LAMBDA item : item.name # name)

\* C15: orderBy never raises; it appends order when there is none and
\* replaces its value where it stands otherwise, so that after the call
\* there is one parameter order, holding the list of orderings of this call,
\* and the other parameters are as before.
C15_OrderByAppendsOrReplaces ==
    [][outcome'.op = "orderBy" =>
        /\ outcome'.raises = NOTHING
        /\ CountKey(appends', "name", ORDER) = 1
        /\ \E o \in OrderLists :
              /\ orderBy(o)
              /\ CollectionGet(appends', "name", ORDER).value = Arr(o)
              /\ ~hasVariable(ORDER) =>
                    appends' = Append(appends, [name |-> ORDER, value |-> Arr(o)])
        /\ hasVariable(ORDER) => NameSeq(appends') = NameSeq(appends)
        /\ Without(appends', ORDER) = Without(appends, ORDER)]_vars

\* orderBy replaced the value of an order that stands before tags
C15_Witness ==
    /\ outcome.op = "orderBy"
    /\ NameSeq(appends) = <<LIMIT, PAGE, ORDER, TAGS>>
    /\ orderingBy = Arr(Prefix(DESCS, 1))

\* the page of the parameters apps
currentPageIn(apps) == CollectionGet(apps, "name", PAGE).value

ParameterPairs(item) ==
    CASE item.value.t = "arr" ->
            [i \in 1..Len(item.value.v) |->
                encodeName(item.name) \o <<"[", "]", "=">>
                \o encodeURIComponent(item.value.v[i])]
      [] item.value.t = "obj" ->
            [i \in 1..Len(item.value.v) |->
                encodeName(item.name) \o <<"[">> \o encodeName(item.value.v[i].k)
                \o <<"]", "=">> \o encodeURIComponent(item.value.v[i].v)]
      [] OTHER -> <<encodeName(item.name) \o <<"=">> \o encodeURIComponent(item.value)>>

\* sub stands somewhere in s
Contains(s, sub) ==
    \E i \in 1..(Len(s) - Len(sub) + 1) : SubSeq(s, i, i + Len(sub) - 1) = sub

TAGS_AB == TAGS \o <<"[", "]", "=", "a", "&">> \o TAGS \o <<"[", "]", "=", "b">>

\* C17: the pairs toQueryString() holds for a parameter are, in order,
\* name[]=element for each element of a sequence, name[key]=value for each
\* key of a keyed value, and the one pair name=value for a scalar; with
\* tags = ['a','b'] appended it contains tags[]=a&tags[]=b.
C17_PairsByShape ==
    LET pairs == Pairs(toQueryString)
    IN  /\ \A i \in 1..Len(appends) :
              SelectSeq(pairs, LAMBDA pair : PairName(pair) = encodeName(appends[i].name))
                  = ParameterPairs(appends[i])
        /\ getVariable(TAGS, NULL) = Arr(<<Str(<<"a">>), Str(<<"b">>)>>)
              => Contains(toQueryString, TAGS_AB)

\* tags = ['a','b'] was appended to a builder whose limit is a keyed value
\* and whose order is a list
C17_Witness ==
    /\ NameSeq(appends) = <<LIMIT, PAGE, ORDER, TAGS>>
    /\ getVariable(TAGS, NULL) = Arr(<<Str(<<"a">>), Str(<<"b">>)>>)
    /\ getLimit = Obj(Prefix(ENTRIES, MaxLen))
    /\ orderingBy = Arr(Prefix(DESCS, MaxLen))
    /\ Contains(toQueryString, TAGS_AB)

\* C18: getLimit() is 15 on a fresh builder; setLimit never raises, and after
\* setLimit(v) or updateVariable('limit', v) getLimit() is v until the next
\* of them; there is always exactly one limit parameter, so getLimit() never
\* answers -1 for want of one.
C18_GetLimitIsLastSet ==
    /\ getLimit = Num(15)
    /\ [][/\ hasVariableIn(appends', LIMIT)
          /\ CountKey(appends', "name", LIMIT) = 1
          /\ outcome'.op = "setLimit" =>
                /\ outcome'.raises = NOTHING
                /\ \E v \in Vals : getLimitIn(appends') = v /\ setLimit(v)
          /\ (outcome'.op = "updateVariable" /\ outcome'.arg = LIMIT) =>
                \E v \in ValsFor(LIMIT) :
                    getLimitIn(appends') = v /\ updateVariable(LIMIT, v)
          /\ ~(\/ outcome'.op = "setLimit"
               \/ outcome'.op = "updateVariable" /\ outcome'.arg = LIMIT) =>
                getLimitIn(appends') = getLimit]_vars

\* setLimit gave limit a list after tags and order were added
C18_Witness ==
    /\ outcome.op = "setLimit"
    /\ getLimit = Arr(Prefix(ELEMS, MaxLen))
    /\ CountKey(appends, "name", LIMIT) = 1
    /\ Len(appends) = 4

ReadOps ==
    {"toQueryString", "getConstraintValue", "hasConstraint", "orderingBy",
     "getLimit", "currentPage", "hasVariable", "getVariable"}

RequestOps == {"get", "update", "insert", "deleteResults"}

\* C19: issuing a request, delivering a response and calling a reader leave
\* the constraints and the parameters as they are: a step that changes
\* either is a call of where, orderBy, setLimit, setPage, incrementPage,
\* decrementPage, append or updateVariable.
C19_OnlyMutatorsChangeStores ==
    [][/\ outcome'.op \in RequestOps \cup ReadOps \cup {"statusCode"}
            => UNCHANGED <<_constraints, appends>>
       /\ <<_constraints, appends>>' # <<_constraints, appends>>
            => outcome'.op \in MutatorOps]_vars

\* a response was delivered for a request of a builder that holds a
\* constraint, an order and a limit of 50, all still there
C19_Witness ==
    /\ outcome.op = "statusCode"
    /\ outcome.calls # <<>>
    /\ hasConstraint(STATUS)
    /\ hasVariable(ORDER)
    /\ getLimit = Num(50)

\* the statuses the operation op gives a handler
DispatchTable(op) == {200, 422, 500} \cup (IF op = "deleteResults" THEN {403} ELSE {})

Called(calls, callback) == \E i \in 1..Len(calls) : calls[i].callback = callback

\* C20: the delivery of a response calls at most one callback of the request
\* and calls it once: success only for status 200, error only for 422 and
\* 500 and, for deleteResults, 403; nothing for a status outside the
\* operation's dispatch table; and the request is answered no second time.
C20_AtMostOneCallbackByStatus ==
    [][outcome'.op = "statusCode" =>
        /\ Len(outcome'.calls) <= 1
        /\ ~(Called(outcome'.calls, "success") /\ Called(outcome'.calls, "error"))
        /\ \E s \in Slots :
              requests[s] # NULL /\ requests' = [requests EXCEPT ![s] = NULL]
        /\ outcome'.calls # <<>> =>
              \A s \in {x \in Slots : requests[x] # NULL /\ requests'[x] = NULL} :
                \A st \in Statuses :
                    (\/ Called(outcome'.calls, "success")
                            /\ ~(st = 200 /\ requests[s].success)
                     \/ Called(outcome'.calls, "error")
                            /\ ~(st \in DispatchTable(requests[s].op) \ {200}
                                    /\ requests[s].error)
                     \/ st \notin DispatchTable(requests[s].op))
                        => \A r \in RecordLists : ~deliver(s, st, r)]_vars

\* a 200 response called success, once and alone
C20_Witness ==
    /\ outcome.op = "statusCode"
    /\ Len(outcome.calls) = 1
    /\ outcome.calls[1].callback = "success"
    /\ requests[1] = NULL

====
